---- MODULE Spec2Model ----
(***************************************************************************)
(* A model of gpx_shortcoder.py: the link locator, the line guard, the     *)
(* relative-path calculator, the splicer, the paging generator and the     *)
(* per-post loop of main().                                                *)
(*                                                                         *)
(* Text is modelled at the granularity the code's regular expressions and  *)
(* the HTML parser distinguish.  A URL path is the list of its '/'-split   *)
(* segments ("/a/b/" is <<"", "a", "b", "">>, the empty path is <<"">>).   *)
(* A document is a sequence of tokens: a newline, a blank, a word of       *)
(* prose, an opening <p>, a closing </p>, an opening <pre>, a closing      *)
(* </pre>, a complete anchor element <a href=..>text</a> (with its quoting *)
(* style) and an inserted shortcode.                                       *)
(***************************************************************************)
EXTENDS Integers, Sequences, FiniteSets, TLC

VARIABLES
    \* per-post pipeline (find_gpx_links, then one insert per match)
    content, link_matches, new_content, mi, pc, run, spl_in,
    \* compute_relative_path
    file_url, post_url, relpath,
    \* main() and get_posts()
    args, gen, mpc, cur, posts_processed, updates, analysed, failed_updates

vars == <<content, link_matches, new_content, mi, pc, run, spl_in,
          file_url, post_url, relpath,
          args, gen, mpc, cur, posts_processed, updates, analysed, failed_updates>>

htmlVars == <<content, link_matches, new_content, mi, pc, run, spl_in>>
pathVars == <<file_url, post_url, relpath>>
mainVars == <<args, gen, mpc, cur, posts_processed, updates, analysed, failed_updates>>

(***************************************************************************)
(* Bounds of the model.                                                    *)
(***************************************************************************)
MaxDocLen == 4
MaxSegs == 3
MaxPage == 2
PerPage == 2
MaxLimit == 2

(***************************************************************************)
(* Sequences.                                                              *)
(***************************************************************************)
Last(s) == s[Len(s)]

Front(s) == SubSeq(s, 1, Len(s) - 1)

SeqsUpTo(S, n) == UNION {[1..m -> S] : m \in 0..n}

(***************************************************************************)
(* Strings: str.lower() and re.IGNORECASE on the words of the model.       *)
(***************************************************************************)
Lower(s) ==
    CASE s = "A.GPX" -> "a.gpx"
      [] s = "T" -> "t"
      [] OTHER -> s

\* str.endswith('.gpx') on a path segment (already lowercased by the caller).
EndsWithGpx(seg) == seg \in {"a.gpx", "t.gpx"}

(***************************************************************************)
(* URL paths.                                                              *)
(***************************************************************************)
\* str.rstrip('/'): every trailing '/' goes.
RECURSIVE RStripSlash(_)
RStripSlash(p) ==
    IF Len(p) > 1 /\ Last(p) = "" THEN RStripSlash(Front(p)) ELSE p

\* str.lstrip('/'): every leading '/' goes.
RECURSIVE LStripSlash(_)
LStripSlash(p) ==
    IF Len(p) > 1 /\ p[1] = "" THEN LStripSlash(Tail(p)) ELSE p

\* path.lower().rstrip('/').endswith('.gpx')
IsQualifyingFile(path) == EndsWithGpx(Lower(Last(RStripSlash(path))))

\* segments[1:-1] = filter(None, segments[1:-1]) of urljoin
FilterMiddle(segs) ==
    IF Len(segs) <= 2 THEN segs
    ELSE <<segs[1]>> \o SelectSeq(SubSeq(segs, 2, Len(segs) - 1), LAMBDA x : x # "")
         \o <<Last(segs)>>

\* the dot-segment loop of urljoin
RECURSIVE RemoveDots(_, _)
RemoveDots(segs, out) ==
    IF segs = <<>> THEN out
    ELSE CASE segs[1] = ".." ->
                RemoveDots(Tail(segs), IF out = <<>> THEN out ELSE Front(out))
           [] segs[1] = "." -> RemoveDots(Tail(segs), out)
           [] OTHER -> RemoveDots(Tail(segs), Append(out, segs[1]))

\* The path of urljoin(base, ref) for a reference without scheme and host:
\* bpath is the base URL's path, path the reference's.
UrlJoinPath(bpath, path) ==
    IF path = <<"">> THEN bpath
    ELSE LET base_parts == IF Last(bpath) # "" THEN Front(bpath) ELSE bpath
             segments == IF Len(path) > 1 /\ path[1] = "" THEN path
                         ELSE FilterMiddle(base_parts \o path)
             resolved == RemoveDots(segments, <<>>)
             dirred == IF Last(segments) \in {".", ".."}
                       THEN Append(resolved, "") ELSE resolved
             joined == IF dirred = <<>> \/ dirred = <<"">> THEN <<"", "">> ELSE dirred
         IN  IF joined[1] # "" THEN <<"">> \o joined ELSE joined

\* urljoin(base, ref): a reference with a host is returned as it is.
UrlJoin(base, ref) ==
    IF ref.netloc # "" THEN ref
    ELSE [netloc |-> base.netloc, path |-> UrlJoinPath(base.path, ref.path)]

(***************************************************************************)
(* compute_relative_path                                                   *)
(***************************************************************************)
\* A slip: the last segment of the post's path is never dropped.
PostDirKeepsLast(post_path) ==
    IF Last(post_path) = "" THEN post_path ELSE Append(post_path, "")

\* The directory of the post: the path itself when it ends in '/', else the
\* path without its last segment.
PostDir(post_path) ==
    IF Len(post_path) > 1 /\ Last(post_path) = "" THEN post_path
    ELSE Append(Front(post_path), "") \o (IF Len(post_path) = 1 THEN <<"">> ELSE <<>>)

Ups(n) == [i \in 1..n |-> ".."]

ComputeRelativePath(f_url, p_url) ==
    IF f_url.netloc # p_url.netloc THEN f_url
    ELSE LET file_path == f_url.path
             post_dir == PostDir(p_url.path)
             post_segments == SelectSeq(post_dir, LAMBDA s : s # "")
             ups == Ups(Len(post_segments))
             rel == ups \o LStripSlash(file_path)
         IN  [netloc |-> "",
              path |-> IF rel = <<"">> THEN file_path ELSE rel]

(***************************************************************************)
(* Documents.                                                              *)
(***************************************************************************)
Plain(k) == [k |-> k, href |-> <<>>, text |-> "", quote |-> "", net |-> ""]

NL == Plain("nl")

SP == Plain("sp")

TXT == Plain("txt")

POpen == Plain("p")

PClose == Plain("/p")

PreOpen == Plain("pre")

PreClose == Plain("/pre")

\* <a href="h">t</a>; quote is "dq" for href="h" and "sq" for href='h'.
ATag(h, t, q) == [k |-> "a", href |-> h, text |-> t, quote |-> q, net |-> ""]

A1 == ATag(<<"", "a.gpx">>, "T", "dq")

A2 == ATag(<<"", "A.GPX", "">>, "T", "dq")

A3 == ATag(<<"", "a.gpx">>, "t", "sq")

A4 == ATag(<<"", "n.txt">>, "T", "dq")

Tokens == {NL, SP, TXT, POpen, PClose, PreOpen, A1, A2, A3, A4}

IsSpace(tk) == tk.k = "sp"

\* SHORTCODE_TPL.format(relpath=relpath, title=title)
Shortcode(rel, title) ==
    [k |-> "sc", href |-> rel.path, text |-> title, quote |-> "", net |-> rel.netloc]

\* The site and the post's link used by the per-post pipeline.
Site == [netloc |-> "e.com", path |-> <<"">>]

PostLink == [netloc |-> "e.com", path |-> <<"", "2020", "post", "">>]

(***************************************************************************)
(* BeautifulSoup(html, "html.parser") followed by str(soup).  Tag nesting  *)
(* is resolved: an end tag without an open element of its name is dropped, *)
(* an end tag closes the elements opened inside its own, elements open at  *)
(* the end are closed.  Attributes are written with double quotes.  A text *)
(* node that is only white space becomes one newline when it holds a       *)
(* newline and one blank otherwise, unless it stands inside a <pre>; every *)
(* other text node is kept as it is.                                       *)
(***************************************************************************)
Dropped == Plain("dropped")

IsText(tk) == tk.k \in {"sp", "nl", "txt", "sc"}

IsOpenTag(tk) == tk.k \in {"p", "pre"}

IsCloseTag(tk) == tk.k \in {"/p", "/pre"}

NameOf(tk) == IF tk.k \in {"p", "/p"} THEN "p" ELSE "pre"

Closer(name) == IF name = "p" THEN PClose ELSE PreClose

\* The innermost open element of this name in the stack of open elements,
\* or 0.
RECURSIVE InnermostOpen(_, _)
InnermostOpen(stack, name) ==
    IF stack = <<>> THEN 0
    ELSE IF Last(stack) = name THEN Len(stack)
    ELSE InnermostOpen(Front(stack), name)

\* The end tags of the open elements from position `from` of the stack on,
\* innermost first.
ClosersOf(stack, from) ==
    [j \in 1..(Len(stack) - from + 1) |-> Closer(stack[Len(stack) + 1 - j])]

\* The tree builder: tags resolved, a dropped end tag leaves a mark that
\* still separates the text in front of it from the text behind it.
RECURSIVE TreeFrom(_, _, _)
TreeFrom(html, i, stack) ==
    IF i > Len(html) THEN ClosersOf(stack, 1)
    ELSE LET tk == html[i] IN
         CASE IsOpenTag(tk) ->
                <<tk>> \o TreeFrom(html, i + 1, Append(stack, NameOf(tk)))
           [] IsCloseTag(tk) ->
                LET at == InnermostOpen(stack, NameOf(tk))
                IN  IF at = 0 THEN <<Dropped>> \o TreeFrom(html, i + 1, stack)
                    ELSE ClosersOf(stack, at)
                         \o TreeFrom(html, i + 1, SubSeq(stack, 1, at - 1))
           [] tk.k = "a" -> <<[tk EXCEPT !.quote = "dq"]>> \o TreeFrom(html, i + 1, stack)
           [] OTHER -> <<tk>> \o TreeFrom(html, i + 1, stack)

\* endData(): the text node collected so far, inside `pres` open <pre>.
EndData(chunk, pres) ==
    IF chunk = <<>> THEN <<>>
    ELSE IF pres = 0 /\ \A j \in 1..Len(chunk) : chunk[j].k \in {"sp", "nl"}
         THEN (IF \E j \in 1..Len(chunk) : chunk[j].k = "nl" THEN <<NL>> ELSE <<SP>>)
    ELSE chunk

RECURSIVE TextNodes(_, _, _, _)
TextNodes(s, i, chunk, pres) ==
    IF i > Len(s) THEN EndData(chunk, pres)
    ELSE IF IsText(s[i]) THEN TextNodes(s, i + 1, Append(chunk, s[i]), pres)
    ELSE EndData(chunk, pres) \o (IF s[i] = Dropped THEN <<>> ELSE <<s[i]>>)
         \o TextNodes(s, i + 1, <<>>,
                      CASE s[i].k = "pre" -> pres + 1
                        [] s[i].k = "/pre" -> pres - 1
                        [] OTHER -> pres)

Soup(html) == TextNodes(TreeFrom(html, 1, <<>>), 1, <<>>, 0)

\* The <p> elements open in front of position i, innermost last.
RECURSIVE OpenPs(_, _)
OpenPs(soup, i) ==
    IF i = 0 THEN <<>>
    ELSE LET s == OpenPs(soup, i - 1) IN
         CASE soup[i].k = "p" -> Append(s, i)
           [] soup[i].k = "/p" -> IF s = <<>> THEN s ELSE Front(s)
           [] OTHER -> s

\* target.find_parent('p'): the position of the innermost enclosing <p>, or 0.
FindParentP(soup, i) ==
    LET s == OpenPs(soup, i - 1) IN IF s = <<>> THEN 0 ELSE Last(s)

InsertBefore(s, i, tk) == SubSeq(s, 1, i - 1) \o <<tk>> \o SubSeq(s, i, Len(s))

\* The loop over soup.find_all('a', href=True): the first anchor from
\* position i on with this href and this text, or 0.
RECURSIVE FirstSameAnchor(_, _, _, _)
FirstSameAnchor(soup, i, href, text) ==
    IF i > Len(soup) THEN 0
    ELSE IF soup[i].k = "a" /\ soup[i].href = href /\ soup[i].text = text THEN i
    ELSE FirstSameAnchor(soup, i + 1, href, text)

\* A slip: the shortcode always goes in front of the anchor, the enclosing
\* paragraph is not looked for.
InsertBeforeAnchorOnly(html, link_tag, shortcode) ==
    LET soup == Soup(html)
        target == FirstSameAnchor(soup, 1, link_tag.href, link_tag.text)
    IN  IF target = 0 THEN html ELSE InsertBefore(soup, target, shortcode)

\* A slip: the serialised soup is returned also when the link is not found.
InsertReturnsSoup(html, link_tag, shortcode) ==
    LET soup == Soup(html)
        target == FirstSameAnchor(soup, 1, link_tag.href, link_tag.text)
    IN  IF target = 0 THEN soup
        ELSE LET parent_p == FindParentP(soup, target)
             IN  IF parent_p # 0 THEN InsertBefore(soup, parent_p, shortcode)
                 ELSE InsertBefore(soup, target, shortcode)

(***************************************************************************)
(* insert_shortcode_into_html                                              *)
(***************************************************************************)
InsertShortcodeIntoHtml(html, link_tag, shortcode) ==
    LET soup == Soup(html)
        target == FirstSameAnchor(soup, 1, link_tag.href, link_tag.text)
    IN  IF target = 0 THEN html
        ELSE LET parent_p == FindParentP(soup, target)
             IN  IF parent_p # 0 THEN InsertBefore(soup, parent_p, shortcode)
                 ELSE InsertBefore(soup, target, shortcode)

(***************************************************************************)
(* find_gpx_links                                                          *)
(***************************************************************************)
\* re.escape(x) under re.IGNORECASE, followed by [^>]*: x may be continued.
SegPrefix(a, b) == a = "" \/ Lower(a) = Lower(b)

HrefPrefix(pat, raw) ==
    /\ Len(pat) <= Len(raw)
    /\ \A i \in 1..(Len(pat) - 1) : Lower(pat[i]) = Lower(raw[i])
    /\ SegPrefix(Last(pat), raw[Len(pat)])

\* anchor_regex matches the raw text of token tk: an anchor element whose
\* href starts with the pattern's and whose inner text is anchor_text, both
\* without regard to case.
AnchorRegexHit(tk, href, anchor_text) ==
    /\ tk.k = "a"
    /\ HrefPrefix(href, tk.href)
    /\ Lower(tk.text) = Lower(anchor_text)

\* anchor_regex.search(html): the first match from position i on, or 0.
RECURSIVE AnchorRegexSearch(_, _, _, _)
AnchorRegexSearch(html, i, href, anchor_text) ==
    IF i > Len(html) THEN 0
    ELSE IF AnchorRegexHit(html[i], href, anchor_text) THEN i
    ELSE AnchorRegexSearch(html, i + 1, href, anchor_text)

\* html.rfind('\n', 0, idx) + 1
RECURSIVE LineStart(_, _)
LineStart(html, idx) ==
    IF idx = 1 THEN 1
    ELSE IF html[idx - 1].k = "nl" THEN idx ELSE LineStart(html, idx - 1)

\* html.find('\n', idx), or len(html): the last position of the line
RECURSIVE LineEnd(_, _)
LineEnd(html, idx) ==
    IF idx = Len(html) THEN idx
    ELSE IF html[idx + 1].k = "nl" THEN idx ELSE LineEnd(html, idx + 1)

LineOf(html, idx) == SubSeq(html, LineStart(html, idx), LineEnd(html, idx))

\* \s* from position i of the line: the first position that is no blank
RECURSIVE SkipSpace(_, _)
SkipSpace(line, i) ==
    IF i <= Len(line) /\ IsSpace(line[i]) THEN SkipSpace(line, i + 1) ELSE i

\* re.escape(matched_str) under re.IGNORECASE
SameRawText(tk, matched) ==
    /\ tk.k = matched.k
    /\ tk.quote = matched.quote
    /\ Len(tk.href) = Len(matched.href)
    /\ \A i \in 1..Len(tk.href) : Lower(tk.href[i]) = Lower(matched.href[i])
    /\ Lower(tk.text) = Lower(matched.text)

\* <p[^>]*> under re.IGNORECASE: an opening tag whose name starts with p.
POpenRegexHit(tk) == tk.k \in {"p", "pre"}

\* re.match(r'^\s*(?:<p[^>]*>\s*)?' + re.escape(matched_str) + r'(?:\s*</p>)?\s*$', line)
LineGuard(line, matched_str) ==
    LET i1 == SkipSpace(line, 1)
        i2 == IF i1 <= Len(line) /\ POpenRegexHit(line[i1])
              THEN SkipSpace(line, i1 + 1) ELSE i1
        i3 == i2 + 1
        i4 == SkipSpace(line, i3)
        i5 == IF i4 <= Len(line) /\ line[i4].k = "/p" THEN SkipSpace(line, i4 + 1) ELSE i3
        i6 == SkipSpace(line, i5)
    IN  /\ i2 <= Len(line)
        /\ SameRawText(line[i2], matched_str)
        /\ i6 = Len(line) + 1

\* One pass of the loop body for the anchor at position i: the match it
\* appends, as a one-element list, or nothing.
LinkResult(html, site_base_url, i) ==
    LET a == html[i]
        abs_url == UrlJoin(site_base_url, [netloc |-> "", path |-> a.href])
        anchor_text == a.text
        m == AnchorRegexSearch(html, 1, a.href, anchor_text)
    IN  IF ~IsQualifyingFile(abs_url.path) THEN <<>>
        ELSE IF m = 0 THEN <<>>
        ELSE IF ~LineGuard(LineOf(html, m), html[m]) THEN <<>>
        ELSE <<[tag |-> i, href |-> a.href, text |-> anchor_text, url |-> abs_url]>>

RECURSIVE FindFrom(_, _, _)
FindFrom(html, site_base_url, i) ==
    IF i > Len(html) THEN <<>>
    ELSE (IF html[i].k = "a" THEN LinkResult(html, site_base_url, i) ELSE <<>>)
         \o FindFrom(html, site_base_url, i + 1)

FindGpxLinks(html, site_base_url) == FindFrom(html, site_base_url, 1)

(***************************************************************************)
(* The per-post pipeline of main(): find_gpx_links once on the content,    *)
(* then one insert_shortcode_into_html per match on the accumulating       *)
(* result.  A second run takes the first run's result as its content.      *)
(***************************************************************************)
ShortcodeFor(m, link) == Shortcode(ComputeRelativePath(m.url, link), m.text)

NoUrl == [netloc |-> "", path |-> <<"">>]

NoArgs == [dry_run |-> FALSE, preview |-> FALSE, user |-> FALSE, limit |-> 0]

NoGen == [pc |-> "idle", page |-> 0, n |-> 0, idx |-> 0, total |-> 0,
          requests |-> 0, status |-> 0]

NoPost == [id |-> <<0, 0>>, raw |-> <<>>, has_raw |-> FALSE, rendered |-> <<>>,
           content |-> <<>>, new_content |-> <<>>, source |-> "none",
           warned |-> FALSE, found |-> 0, update |-> "none", preview |-> "none"]

HtmlIdle ==
    /\ content = <<>> /\ link_matches = <<>> /\ new_content = <<>>
    /\ mi = 0 /\ pc = "idle" /\ run = 0 /\ spl_in = <<>>

PathIdle == file_url = NoUrl /\ post_url = NoUrl /\ relpath = NoUrl

MainIdle ==
    /\ args = NoArgs /\ gen = NoGen /\ mpc = "idle" /\ cur = NoPost
    /\ posts_processed = 0 /\ updates = 0 /\ analysed = 0 /\ failed_updates = 0

InitHtml ==
    /\ content \in SeqsUpTo(Tokens, MaxDocLen)
    /\ link_matches = <<>>
    /\ new_content = content
    /\ mi = 0
    /\ pc = "locate"
    /\ run = 1
    /\ spl_in = <<>>
    /\ PathIdle /\ MainIdle

\* link_matches = find_gpx_links(content, site); if not link_matches: continue
Locate ==
    /\ pc = "locate"
    /\ link_matches' = FindGpxLinks(content, Site)
    /\ new_content' = content
    /\ mi' = 1
    /\ pc' = IF link_matches' = <<>> THEN "done" ELSE "splice"
    /\ UNCHANGED <<content, run, spl_in>>
    /\ UNCHANGED pathVars /\ UNCHANGED mainVars

\* One pass of: for a_tag, file_url, file_title in link_matches: ...
Splice ==
    /\ pc = "splice"
    /\ LET m == link_matches[mi]
           sc == ShortcodeFor(m, PostLink)
       IN  new_content' = InsertShortcodeIntoHtml(new_content, m, sc)
    /\ spl_in' = new_content
    /\ mi' = mi + 1
    /\ pc' = IF mi = Len(link_matches) THEN "done" ELSE "splice"
    /\ UNCHANGED <<content, link_matches, run>>
    /\ UNCHANGED pathVars /\ UNCHANGED mainVars

\* The next run of the program over the post as the first run left it.
Rerun ==
    /\ pc = "done"
    /\ run = 1
    /\ content' = new_content
    /\ link_matches' = <<>>
    /\ mi' = 0
    /\ pc' = "locate"
    /\ run' = 2
    /\ spl_in' = <<>>
    /\ UNCHANGED new_content
    /\ UNCHANGED pathVars /\ UNCHANGED mainVars

NextHtml == Locate \/ Splice \/ Rerun

SpecHtml == InitHtml /\ [][NextHtml]_vars

(***************************************************************************)
(* Properties of the per-post pipeline.                                    *)
(***************************************************************************)
Blanks(n) == [i \in 1..n |-> SP]

RECURSIVE Trim(_)
Trim(line) ==
    IF line # <<>> /\ IsSpace(line[1]) THEN Trim(Tail(line))
    ELSE IF line # <<>> /\ IsSpace(Last(line)) THEN Trim(Front(line))
    ELSE line

\* The lines that hold nothing but the matched anchor, with an opening <p>
\* in front of it and a closing </p> behind it or without them.
IsolatedLines(matched, n) ==
    LET pre == {<<>>} \cup {<<POpen>> \o Blanks(i) : i \in 0..n}
        post == {<<>>} \cup {Blanks(i) \o <<PClose>> : i \in 0..n}
    IN  {a \o <<matched>> \o b : a \in pre, b \in post}

Emitted(i) == \E k \in 1..Len(link_matches) : link_matches[k].tag = i

Qualifies(tk) ==
    tk.k = "a" /\ IsQualifyingFile(UrlJoinPath(Site.path, tk.href))

RawMatch(i) == AnchorRegexSearch(content, 1, content[i].href, content[i].text)

HasProse(line) == \E j \in 1..Len(line) : line[j].k \in {"txt", "sc"}

NumDirectives(doc) == Cardinality({i \in 1..Len(doc) : doc[i].k = "sc"})

\* C2 as stated: a qualifying anchor is emitted exactly when the line that
\* holds the start of its raw-text match, trimmed, is the matched anchor
\* alone or the anchor wrapped in <p> and/or </p>; an anchor on a line with
\* prose is not emitted; and a post without an emitted match keeps its
\* content.
C2_Original ==
    pc \in {"splice", "done"} =>
        /\ \A i \in 1..Len(content) :
              Emitted(i) <=>
                 /\ Qualifies(content[i])
                 /\ RawMatch(i) # 0
                 /\ Trim(LineOf(content, RawMatch(i)))
                       \in IsolatedLines(content[RawMatch(i)], Len(content))
        /\ \A i \in 1..Len(content) :
              (content[i].k = "a" /\ RawMatch(i) # 0
                 /\ HasProse(LineOf(content, RawMatch(i)))) => ~Emitted(i)
        /\ (pc = "done" /\ link_matches = <<>>) =>
              (new_content = content
                 /\ NumDirectives(new_content) = NumDirectives(content))

FinalOfFirstRun == run = 1 /\ pc = "done"

TwoDistinctMatches ==
    /\ Len(link_matches) = 2
    /\ <<link_matches[1].href, link_matches[1].text>>
          # <<link_matches[2].href, link_matches[2].text>>

\* The position of match k's directive, of its anchor and of the place the
\* directive belongs in front of, in the final document.
DirectivePos(k) ==
    LET sc == ShortcodeFor(link_matches[k], PostLink)
    IN  CHOOSE i \in 0..Len(new_content) :
           /\ i # 0 => new_content[i] = sc
           /\ i = 0 => \A j \in 1..Len(new_content) : new_content[j] # sc

AnchorPos(k) ==
    FirstSameAnchor(new_content, 1, link_matches[k].href, link_matches[k].text)

TargetPos(k) ==
    LET p == FindParentP(new_content, AnchorPos(k))
    IN  IF p # 0 THEN p ELSE AnchorPos(k)

OnlyDirectivesBetween(i, j) ==
    \A x \in (i + 1)..(j - 1) : new_content[x].k = "sc"

C10_Idempotent ==
    (run = 2 /\ pc = "done") => new_content = content

(***************************************************************************)
(* insert_shortcode_into_html on its own: any document, any link tag.      *)
(***************************************************************************)
LinkTags ==
    {[tag |-> 0, href |-> a.href, text |-> a.text,
      url |-> UrlJoin(Site, [netloc |-> "", path |-> a.href])] : a \in {A1, A2, A3, A4}}

InitSplice ==
    /\ content \in SeqsUpTo(Tokens, MaxDocLen)
    /\ \E l \in LinkTags : link_matches = <<l>>
    /\ new_content = content
    /\ mi = 1
    /\ pc = "call"
    /\ run = 0
    /\ spl_in = <<>>
    /\ PathIdle /\ MainIdle

InsertCall ==
    /\ pc = "call"
    /\ new_content' = InsertShortcodeIntoHtml(content, link_matches[1],
                                              ShortcodeFor(link_matches[1], PostLink))
    /\ spl_in' = content
    /\ pc' = "ret"
    /\ UNCHANGED <<content, link_matches, mi, run>>
    /\ UNCHANGED pathVars /\ UNCHANGED mainVars

NextSplice == InsertCall

SpecSplice == InitSplice /\ [][NextSplice]_vars

Without(s, i) == SubSeq(s, 1, i - 1) \o SubSeq(s, i + 1, Len(s))

\* The link tag is found again: some anchor of the document has its href
\* and its text.
Reidentified ==
    \E i \in 1..Len(content) :
        /\ content[i].k = "a"
        /\ content[i].href = link_matches[1].href
        /\ content[i].text = link_matches[1].text

\* C3 as stated: the result is the input with the directive put in at one
\* position, immediately in front of the enclosing paragraph or else of the
\* anchor; when the link tag is not found the result is the input.
C3_Original ==
    pc = "ret" =>
        IF Reidentified
        THEN /\ DirectivePos(1) # 0
             /\ Without(new_content, DirectivePos(1)) = content
             /\ DirectivePos(1) + 1 = TargetPos(1)
        ELSE new_content = content

\* C3 as amended: the result is the parser's serialisation of the input
\* with the directive put in at that one position, and so the input itself
\* with the directive put in whenever the input is its own serialisation;
\* when the link tag is not found the result is the input, untouched.
C3_FrameOfSplice ==
    pc = "ret" =>
        IF Reidentified
        THEN /\ DirectivePos(1) # 0
             /\ NumDirectives(new_content) = NumDirectives(content) + 1
             /\ Without(new_content, DirectivePos(1)) = Soup(content)
             /\ Soup(content) = content
                   => Without(new_content, DirectivePos(1)) = content
             /\ DirectivePos(1) + 1 = TargetPos(1)
        ELSE new_content = content

\* C3: a serialised document with the anchor inside a paragraph, spliced.
C3_Witness ==
    /\ pc = "ret" /\ Reidentified
    /\ Soup(content) = content
    /\ FindParentP(new_content, AnchorPos(1)) # 0
    /\ Without(new_content, DirectivePos(1)) = content

(***************************************************************************)
(* compute_relative_path on its own.                                       *)
(***************************************************************************)
Segments == {"", "a", "..", "t.gpx"}

\* urlparse(url).path of a URL with a host: empty, or starting with '/'.
Paths == {<<"">>} \cup {<<"">> \o p : p \in SeqsUpTo(Segments, MaxSegs) \ {<<>>}}

InitPath ==
    /\ file_url \in [netloc : {"e.com", "o.org"},
                      path : {p \in Paths : IsQualifyingFile(p)}]
    /\ post_url \in [netloc : {"e.com"}, path : Paths]
    /\ relpath = NoUrl
    /\ pc = "path"
    /\ content = <<>> /\ link_matches = <<>> /\ new_content = <<>>
    /\ mi = 0 /\ run = 0 /\ spl_in = <<>>
    /\ MainIdle

Compute ==
    /\ pc = "path"
    /\ relpath' = ComputeRelativePath(file_url, post_url)
    /\ pc' = "computed"
    /\ UNCHANGED <<content, link_matches, new_content, mi, run, spl_in>>
    /\ UNCHANGED <<file_url, post_url>> /\ UNCHANGED mainVars

NextPath == Compute

SpecPath == InitPath /\ [][NextPath]_vars

\* The reference URL's directory: the path itself when it ends in '/',
\* otherwise the path with its last segment dropped.
RefDir(p) == IF Len(p) > 1 /\ Last(p) = "" THEN p ELSE Append(Front(p), "")

\* urlparse of a reference given as a string: after a leading '//' comes a
\* host.
ParseRef(segs) ==
    IF Len(segs) >= 3 /\ segs[1] = "" /\ segs[2] = ""
    THEN [netloc |-> segs[3],
          path |-> IF Len(segs) = 3 THEN <<"">> ELSE <<"">> \o SubSeq(segs, 4, Len(segs))]
    ELSE [netloc |-> "", path |-> segs]

Resolved ==
    UrlJoin([netloc |-> post_url.netloc, path |-> RefDir(post_url.path)],
            ParseRef(relpath.path)).path

NonEmptyCount(p) == Cardinality({i \in 1..Len(p) : p[i] # ""})

\* An absolute path without '.' and '..' segments and without empty
\* segments other than a last one (a trailing '/').
NormalPath(p) ==
    /\ Len(p) >= 2 /\ p[1] = ""
    /\ \A i \in 2..Len(p) : p[i] \notin {".", ".."}
    /\ \A i \in 2..(Len(p) - 1) : p[i] # ""

SameHost == file_url.netloc = post_url.netloc

\* C4 as stated: for every two URLs of one host the relative path resolves,
\* against the reference URL's directory, to the target URL's path.
C4_Original ==
    (pc = "computed" /\ SameHost) => Resolved = file_url.path

\* C4 as amended: that holds for every target whose path is normalised; the
\* relative path is one '..' for each non-empty segment of the directory,
\* then the target path without its leading '/'.
C4_RoundTrip ==
    (pc = "computed" /\ SameHost /\ NormalPath(file_url.path)) =>
        /\ Resolved = file_url.path
        /\ relpath.netloc = ""
        /\ relpath.path = Ups(NonEmptyCount(RefDir(post_url.path)))
                             \o Tail(file_url.path)

\* C4: a target two directories up from the post, computed and resolved.
C4_Witness ==
    /\ pc = "computed" /\ SameHost
    /\ file_url.path = <<"", "a", "t.gpx">>
    /\ post_url.path = <<"", "a", "a", "">>
    /\ relpath.path = <<"..", "..", "a", "t.gpx">>
    /\ Resolved = file_url.path

(***************************************************************************)
(* get_posts() and the loop of main().                                     *)
(***************************************************************************)
\* What the server may hand out as a post's content object.
PostKinds ==
    {[has_raw |-> FALSE, raw |-> <<>>, rendered |-> <<POpen, A1, PClose>>],
     [has_raw |-> TRUE, raw |-> <<A1>>, rendered |-> <<POpen, A1, PClose>>],
     [has_raw |-> TRUE, raw |-> <<>>, rendered |-> <<TXT>>],
     [has_raw |-> TRUE, raw |-> <<TXT>>, rendered |-> <<POpen, TXT, PClose>>],
     [has_raw |-> FALSE, raw |-> <<>>, rendered |-> <<POpen, TXT, PClose>>]}

\* What the server may answer to the request for a page: a status, the
\* number of items and the X-WP-TotalPages header (0: no such header).  The
\* listing is finite: no page after MaxPage holds an item.
Responses(page) ==
    {[status |-> 404, n |-> 0, total |-> 0], [status |-> 500, n |-> 0, total |-> 0]}
    \cup [status : {200},
          n : IF page > MaxPage THEN {0} ELSE 0..PerPage,
          total : 0..MaxPage]

InitMain ==
    /\ args \in [dry_run : BOOLEAN, preview : BOOLEAN, user : BOOLEAN, limit : 0..MaxLimit]
    /\ gen = [pc |-> "fresh", page |-> 1, n |-> 0, idx |-> 0, total |-> 0,
              requests |-> 0, status |-> 0]
    /\ mpc = "start"
    /\ cur = NoPost
    /\ posts_processed = 0 /\ updates = 0 /\ analysed = 0 /\ failed_updates = 0
    /\ HtmlIdle /\ PathIdle

\* parser.error(...) unless credentials, --dry-run or --preview are given
Start ==
    /\ mpc = "start"
    /\ mpc' = IF ~args.user /\ ~args.dry_run /\ ~args.preview THEN "aborted" ELSE "next"
    /\ UNCHANGED <<args, gen, cur, posts_processed, updates, analysed, failed_updates>>
    /\ UNCHANGED htmlVars /\ UNCHANGED pathVars

\* The generator after session.get(...) for page `page` was answered `resp`.
Fetched(page, resp) ==
    [pc |-> CASE resp.status = 404 -> "done"
              [] resp.status # 200 -> "raised"
              [] resp.n = 0 -> "done"
              [] OTHER -> "items",
     page |-> page, n |-> resp.n, idx |-> 0, total |-> resp.total,
     requests |-> page, status |-> resp.status]

\* Where main() is once the generator has run up to its next yield, its
\* return or an exception.
AfterGen(g) ==
    CASE g.pc = "done" -> "summary"
      [] g.pc = "raised" -> "crashed"
      [] OTHER -> "next"

\* The first next() on the generator: page 1 is requested.
GenFirstFetch ==
    /\ mpc = "next" /\ gen.pc = "fresh"
    /\ \E resp \in Responses(1) : gen' = Fetched(1, resp)
    /\ mpc' = AfterGen(gen')
    /\ UNCHANGED <<args, cur, posts_processed, updates, analysed, failed_updates>>
    /\ UNCHANGED htmlVars /\ UNCHANGED pathVars

\* for p in items: yield p
GenYield ==
    /\ mpc = "next" /\ gen.pc = "items" /\ gen.idx < gen.n
    /\ gen' = [gen EXCEPT !.idx = gen.idx + 1]
    /\ \E kind \in PostKinds :
          cur' = [NoPost EXCEPT !.id = <<gen.page, gen.idx + 1>>,
                                !.has_raw = kind.has_raw, !.raw = kind.raw,
                                !.rendered = kind.rendered]
    /\ mpc' = "body"
    /\ UNCHANGED <<args, posts_processed, updates, analysed, failed_updates>>
    /\ UNCHANGED htmlVars /\ UNCHANGED pathVars

\* A slip: page > total in the place of page >= total.
LastPageOffByOne(g) ==
    IF g.total # 0 THEN g.page > g.total ELSE g.n < PerPage

\* The end of the while body: whether another page is asked for.
LastPage(g) ==
    IF g.total # 0 THEN g.page >= g.total ELSE g.n < PerPage

\* The page is used up: the generator returns, or asks for the next page.
GenAdvance ==
    /\ mpc = "next" /\ gen.pc = "items" /\ gen.idx = gen.n
    /\ IF LastPage(gen) THEN gen' = [gen EXCEPT !.pc = "done"]
       ELSE \E resp \in Responses(gen.page + 1) : gen' = Fetched(gen.page + 1, resp)
    /\ mpc' = AfterGen(gen')
    /\ UNCHANGED <<args, cur, posts_processed, updates, analysed, failed_updates>>
    /\ UNCHANGED htmlVars /\ UNCHANGED pathVars

\* if args.limit and posts_processed >= args.limit: break
LimitReached == args.limit # 0 /\ posts_processed >= args.limit

LimitBreak ==
    /\ mpc = "body" /\ LimitReached
    /\ mpc' = "summary"
    /\ UNCHANGED <<args, gen, cur, posts_processed, updates, analysed, failed_updates>>
    /\ UNCHANGED htmlVars /\ UNCHANGED pathVars

\* content = raw or rendered, with the source it came from and whether the
\* warning was printed.
ChooseContent(post, auth) ==
    IF auth /\ post.has_raw
    THEN [content |-> IF post.raw # <<>> THEN post.raw ELSE post.rendered,
          source |-> IF post.raw # <<>> THEN "raw" ELSE "rendered",
          warned |-> FALSE]
    ELSE [content |-> post.rendered, source |-> "rendered", warned |-> TRUE]

\* for a_tag, file_url, file_title in link_matches: new_content = insert...
RECURSIVE SpliceAll(_, _, _)
SpliceAll(html, matches, i) ==
    IF i > Len(matches) THEN html
    ELSE SpliceAll(InsertShortcodeIntoHtml(html, matches[i],
                                           ShortcodeFor(matches[i], PostLink)),
                   matches, i + 1)

\* A slip: --preview is looked at before --dry-run.
PersistPreviewFirst(a, changed, outcome) ==
    IF ~changed THEN [update |-> "none", preview |-> "none"]
    ELSE IF a.preview THEN [update |-> "none", preview |-> outcome]
    ELSE IF a.dry_run THEN [update |-> "none", preview |-> "none"]
    ELSE [update |-> outcome, preview |-> "none"]

\* if new_content != content: dry run, preview or update; `outcome` is how
\* the write or the request ends.
Persist(a, changed, outcome) ==
    IF ~changed THEN [update |-> "none", preview |-> "none"]
    ELSE IF a.dry_run THEN [update |-> "none", preview |-> "none"]
    ELSE IF a.preview THEN [update |-> "none", preview |-> outcome]
    ELSE [update |-> outcome, preview |-> "none"]

\* A slip: update_post outside a try.
AfterPersistUncaught(done) == IF done.update = "failed" THEN "crashed" ELSE "next"

\* try: update_post(...) except Exception as e: print(...), and the same
\* around the preview files: the loop goes on.
AfterPersist(done) == "next"

\* The contents the server's posts can have.
Contents == {k.raw : k \in PostKinds} \cup {k.rendered : k \in PostKinds}

\* link_matches = find_gpx_links(content, site) and the new_content the
\* splices make of it, for each of these contents.
Pipeline ==
    [c \in Contents |->
        [link_matches |-> FindGpxLinks(c, Site),
         new_content |-> SpliceAll(c, FindGpxLinks(c, Site), 1)]]

\* The body of the loop for one post, from the choice of the content to
\* the persistence step: the post with what was done to it, and where the
\* loop goes from there.
Processed(post, a, outcome) ==
    LET c == ChooseContent(post, a.user)
        ms == Pipeline[c.content].link_matches
        new == Pipeline[c.content].new_content
        done == IF ms = <<>> THEN [update |-> "none", preview |-> "none"]
                ELSE Persist(a, new # c.content, outcome)
    IN  [post |-> [post EXCEPT !.content = c.content, !.new_content = new,
                               !.source = c.source, !.warned = c.warned,
                               !.found = Len(ms),
                               !.update = done.update, !.preview = done.preview],
         counted |-> ms # <<>>,
         changed |-> ms # <<>> /\ new # c.content,
         goes |-> IF ms = <<>> THEN "next" ELSE AfterPersist(done)]

ProcessPost ==
    /\ mpc = "body" /\ ~LimitReached
    /\ \E outcome \in {"ok", "failed"} :
          LET r == Processed(cur, args, outcome) IN
          /\ cur' = r.post
          /\ analysed' = analysed + 1
          /\ updates' = IF r.changed THEN updates + 1 ELSE updates
          /\ failed_updates' = IF r.post.update = "failed"
                               THEN failed_updates + 1 ELSE failed_updates
          /\ posts_processed' = IF r.counted THEN posts_processed + 1 ELSE posts_processed
          /\ mpc' = r.goes
    /\ UNCHANGED <<args, gen>>
    /\ UNCHANGED htmlVars /\ UNCHANGED pathVars

\* print('\nSummary:') ...
Summary ==
    /\ mpc = "summary"
    /\ mpc' = "exit"
    /\ UNCHANGED <<args, gen, cur, posts_processed, updates, analysed, failed_updates>>
    /\ UNCHANGED htmlVars /\ UNCHANGED pathVars

NextMain ==
    \/ Start
    \/ GenFirstFetch
    \/ GenYield
    \/ GenAdvance
    \/ LimitBreak
    \/ ProcessPost
    \/ Summary

SpecMain == InitMain /\ [][NextMain]_vars

\* The program is sequential and every step of it ends: it keeps going
\* until it exits.
SpecMainFair == SpecMain /\ WF_vars(NextMain)

(***************************************************************************)
(* Properties of main() and get_posts().                                   *)
(***************************************************************************)
Changed == cur.new_content # cur.content

\* C5: update_post is called only in a live run and only for changed
\* content; the preview files are written only in a preview run that is no
\* dry run and only for changed content; so a dry run neither updates nor
\* writes, a preview run does not update, and unchanged content goes
\* nowhere.
C5_Persistence ==
    /\ cur.update # "none" => (~args.dry_run /\ ~args.preview /\ Changed)
    /\ cur.preview # "none" => (args.preview /\ ~args.dry_run /\ Changed)
    /\ args.dry_run => (cur.update = "none" /\ cur.preview = "none")
    /\ ~Changed => (cur.update = "none" /\ cur.preview = "none")

\* C5: a live run has updated a changed post.
C5_Witness ==
    /\ ~args.dry_run /\ ~args.preview
    /\ Changed /\ cur.update = "ok"

\* C6 as stated: after a transport failure, of a fetch or of an update, the
\* run is not cut short: it goes on towards its summary.
C6_Original ==
    (gen.pc = "raised" \/ failed_updates > 0) => mpc # "crashed"

\* C6 as amended: a failed update_post is counted and the loop goes on with
\* the next post; the run ends without its summary exactly when a request
\* of get_posts failed.
C6_UpdateFailureIsolated ==
    /\ cur.update = "failed" => failed_updates > 0
    /\ (cur.update = "failed" /\ gen.pc # "raised") => mpc \in {"next", "body", "summary", "exit"}
    /\ mpc = "crashed" <=> gen.pc = "raised"

\* C6: after a failed update a later post has been analysed and updated.
C6_Witness ==
    /\ failed_updates > 0
    /\ cur.update = "ok"
    /\ analysed >= 2

StopOriginal(g) ==
    \/ g.n = 0
    \/ g.total # 0 /\ g.page >= g.total
    \/ g.n < PerPage

StopAmended(g) ==
    \/ g.n = 0
    \/ g.total # 0 /\ g.page >= g.total
    \/ g.total = 0 /\ g.n < PerPage

NextPageAsked == gen'.requests # gen.requests /\ gen.requests > 0

\* C7 as stated: no further page is asked for once the page just fetched
\* is empty, has reached the total-pages indicator or is short.
C7_Original ==
    [][NextPageAsked => ~StopOriginal(gen)]_vars

PagingStep ==
    /\ gen'.requests # gen.requests =>
          (gen'.requests = gen.requests + 1 /\ gen'.page = gen'.requests)
    /\ NextPageAsked => (gen.idx = gen.n /\ ~StopAmended(gen))
    /\ cur'.id # cur.id => (gen.idx < gen.n /\ cur'.id = <<gen.page, gen.idx + 1>>)
    /\ (gen.pc = "items" /\ gen'.pc = "done" /\ gen'.requests = gen.requests) =>
          (gen.idx = gen.n /\ StopAmended(gen))

Ended == mpc \in {"exit", "crashed", "aborted"}

\* C7 as amended: the k-th request asks for page k; the items of a page are
\* yielded one by one in their order, all of them before the next request
\* or the return; no further page is asked for once the page just fetched
\* is empty, has reached the total-pages indicator or, there being no such
\* indicator, is short; a 404 ends the iteration without an error; and with
\* a finite listing the run ends.
C7_Paging ==
    /\ [][PagingStep]_vars
    /\ [](gen.status = 404 => (gen.pc = "done" /\ mpc # "crashed"))
    /\ <>Ended

\* C7: two pages were fetched and yielded, the second one short and without a
\* total-pages header, and the generator has returned.
C7_Witness ==
    /\ gen.pc = "done" /\ gen.status = 200
    /\ gen.requests = 2 /\ gen.total = 0
    /\ gen.n > 0 /\ gen.n < PerPage /\ gen.idx = gen.n

\* C8: the warning is printed whenever the rendered content is what link
\* detection runs on, and not when the raw content is.
C8_Original ==
    /\ cur.source = "rendered" => cur.warned
    /\ cur.source = "raw" => ~cur.warned

\* C9: with --limit N, N >= 1, at most N posts go through link detection.
C9_Original ==
    args.limit >= 1 => analysed <= args.limit

====
